---- MODULE Spec2Model ----
(***************************************************************************)
(* Model of src/tool.py: the topology builder (build_topology), the issue  *)
(* detector (detect_issues), the demand simulator                          *)
(* (estimate_endpoint_demands, recommend_load_balancing) and the Day-1     *)
(* discovery simulation (NodeThread, run_day1_sim).                        *)
(*                                                                         *)
(* Three specifications share the module:                                  *)
(*   Spec       build_topology followed by detect_issues on a bounded      *)
(*              family of parsed configurations;                           *)
(*   DemandSpec estimate_endpoint_demands / recommend_load_balancing on a  *)
(*              bounded family of graphs;                                  *)
(*   SimSpec    run_day1_sim: the orchestrator and one worker per router,  *)
(*              interleaved step by step.                                  *)
(***************************************************************************)
EXTENDS Integers, Sequences, FiniteSets, TLC

VARIABLES
    \* --- build_topology / detect_issues
    order,          \* parsed.keys(): device names in dict insertion order
    parsed,         \* parsed[n]: the "interfaces" list of device n
    links,          \* G.edges[u, v]["links"], keyed by the edge {u, v}
    capacity_kbps,  \* G.edges[u, v]["capacity_kbps"]
    mtus,           \* G.edges[u, v]["mtus"]
    issues,         \* the list detect_issues returns
    tpc,            \* "parsed" -> "built" -> "detected"
    \* --- estimate_endpoint_demands / recommend_load_balancing
    gnodes,         \* list(G.nodes()): node insertion order
    gedges,         \* the edges of G, each a set {u, v}
    gcap,           \* capacity_kbps of each edge
    edge_load,      \* the dict edge_load: (u, v) -> kbps
    trial,          \* number of completed iterations of "for _ in range(6)"
    traversed,      \* history: per edge, the demand of the trials that crossed it
    recos,          \* the list recommend_load_balancing returns
    dpc,            \* "trials" -> "returned" -> "recommended", or "raised"
    \* --- run_day1_sim / NodeThread
    device_type,    \* G.nodes[n]["device_type"]
    sedges,         \* the edges of G, each a set {u, v}
    started,        \* number of workers the orchestrator has started
    collected,      \* the orchestrator has built simlog
    pc,             \* per worker: "new", "hello", "loop", "reply", "done"
    todo,           \* per worker: neighbours still to be sent the bootstrap HELLO
    frm,            \* per worker: the sender of the message being handled
    inbox,          \* per worker: the queue self.inbox
    log,            \* per worker: the list self.log
    early           \* history: the mailbox held a message when the worker was started

topoVars == <<order, parsed, links, capacity_kbps, mtus, issues, tpc>>
demVars  == <<gnodes, gedges, gcap, edge_load, trial, traversed, recos, dpc>>
simVars  == <<device_type, sedges, started, collected, pc, todo, frm, inbox, log,
              early>>
vars     == <<topoVars, demVars, simVars>>

\* Python's None: as a string where the field holds strings (vlan), as the
\* empty tuple where it holds tuples (ip, connects_to).
None == "None"
NoIp == <<>>
NoHint == <<>>

\* Device names in sorted order: Python compares the names as strings.
Names == <<"R1", "R2", "R3">>

Rank(n) == CHOOSE i \in 1..Len(Names) : Names[i] = n

EmptyFn == [x \in {} |-> {}]

Range(s) == {s[i] : i \in 1..Len(s)}

Min2(a, b) == IF a <= b THEN a ELSE b

\* Sequences without repetition over the elements of S, of any length.
RECURSIVE Arrangements(_)
Arrangements(S) ==
    {<<>>} \cup UNION {{<<x>> \o t : t \in Arrangements(S \ {x})} : x \in S}

(***************************************************************************)
(* Bounds and the input family of build_topology.                          *)
(***************************************************************************)
\* Largest number of interfaces over all devices of one input.  An input is
\* any arrangement of any subset of TopoDevices, each device with any list of
\* interfaces of IfPool, the lists' lengths adding up to MaxIfTotal at most.
MaxIfTotal == 3

TopoDevices == {"R1", "R2"}

IfNames == {"e0", "e1"}

\* An address is its four octets.
Profiles ==
    { [ip |-> <<10, 0, 0, 1>>, vlan |-> None, mtu |-> 1500, bw |-> 100000,
       connects_to |-> NoHint],
      [ip |-> <<10, 0, 0, 2>>, vlan |-> "10", mtu |-> 9000, bw |-> 1000,
       connects_to |-> NoHint],
      [ip |-> <<10, 0, 0, 2>>, vlan |-> None, mtu |-> 1500, bw |-> 0,
       connects_to |-> <<"R1", "e0">>],
      [ip |-> NoIp, vlan |-> None, mtu |-> 9000, bw |-> 100000,
       connects_to |-> <<"R2", "e1">>],
      [ip |-> <<10, 0, 1, 1>>, vlan |-> "10", mtu |-> 1500, bw |-> 0,
       connects_to |-> <<"R2", "e0">>] }

\* The dicts parse_config appends to out["interfaces"].
IfPool ==
    { [name |-> n, ip |-> p.ip, vlan |-> p.vlan, mtu |-> p.mtu, bw |-> p.bw,
       connects_to |-> p.connects_to] : n \in IfNames, p \in Profiles }

IfSeqs(k) == UNION {[1..m -> IfPool] : m \in 0..k}

(***************************************************************************)
(* build_topology                                                          *)
(***************************************************************************)
DefaultBw == 100000
DefaultCapacity == 100000
DefaultMtu == 1500

\* The (device, interface) pairs in the order the nested loops
\* "for a, data in parsed.items(): for intf in data["interfaces"]" visit them.
RECURSIVE IfaceList(_, _)
IfaceList(ord, p) ==
    IF ord = <<>> THEN <<>>
    ELSE [i \in 1..Len(p[Head(ord)]) |-> <<Head(ord), p[Head(ord)][i]>>]
         \o IfaceList(Tail(ord), p)

\* G.add_edge(a, b, links=set()): creates the edge, or, when the edge exists,
\* overwrites its "links" attribute with the fresh empty set.
AddEdge(lk, a, b) ==
    [e \in (DOMAIN lk) \cup {{a, b}} |-> IF e = {a, b} THEN {} ELSE lk[e]]

\* G.edges[a, b]["links"].add(l)
AddLink(lk, a, b, l) == [lk EXCEPT ![{a, b}] = @ \cup {l}]

\* One iteration of the explicit-hint loop body, for interface intf of device a.
HintStep(lk, a, intf, p) ==
    IF intf.connects_to # NoHint /\ intf.connects_to[1] \in DOMAIN p
    THEN AddLink(AddEdge(lk, a, intf.connects_to[1]), a, intf.connects_to[1],
                 <<a, intf.name, intf.connects_to[1], intf.connects_to[2]>>)
    ELSE lk

RECURSIVE ExplicitPass(_, _, _)
ExplicitPass(lk, L, p) ==
    IF L = <<>> THEN lk
    ELSE ExplicitPass(HintStep(lk, Head(L)[1], Head(L)[2], p), Tail(L), p)

HasIp(x) == x[2].ip # NoIp

\* ".".join(ip.split(".")[:3])
Prefix(ip) == SubSeq(ip, 1, 3)

\* One iteration of the itertools.combinations loop body.
InferStep(lk, x, y) ==
    IF Prefix(x[2].ip) = Prefix(y[2].ip) /\ x[1] # y[1]
    THEN AddLink(IF {x[1], y[1]} \in DOMAIN lk THEN lk ELSE AddEdge(lk, x[1], y[1]),
                 x[1], y[1], <<x[1], x[2].name, y[1], y[2].name>>)
    ELSE lk

\* itertools.combinations(iface_list, 2): pairs (i, j), i < j, in lexicographic order.
RECURSIVE InferredPass(_, _, _, _)
InferredPass(lk, L, i, j) ==
    IF i >= Len(L) THEN lk
    ELSE IF j > Len(L) THEN InferredPass(lk, L, i + 1, i + 2)
    ELSE InferredPass(InferStep(lk, L[i], L[j]), L, i, j + 1)

BuildLinks(ord, p) ==
    InferredPass(ExplicitPass(EmptyFn, IfaceList(ord, p), p),
                 SelectSeq(IfaceList(ord, p), HasIp), 1, 2)

Matches(p, dev, name) == {i \in 1..Len(p[dev]) : p[dev][i].name = name}

MaxOf(S) == CHOOSE x \in S : \A y \in S : y <= x
MinOf(S) == CHOOSE x \in S : \A y \in S : x <= y

\* "for intf in ...: if intf["name"] == ai: bw_a = intf["bw"]": the last match wins.
BwOf(p, dev, name) ==
    IF Matches(p, dev, name) = {} THEN DefaultBw
    ELSE p[dev][MaxOf(Matches(p, dev, name))].bw

\* next((x["mtu"] for x in ... if x["name"] == ai), 1500): the first match wins.
MtuOf(p, dev, name) ==
    IF Matches(p, dev, name) = {} THEN DefaultMtu
    ELSE p[dev][MinOf(Matches(p, dev, name))].mtu

\* The iteration order of a Python set is fixed for one set but unspecified.
RECURSIVE SetToSeq(_)
SetToSeq(S) ==
    IF S = {} THEN <<>>
    ELSE LET x == CHOOSE y \in S : TRUE IN <<x>> \o SetToSeq(S \ {x})

\* Faulty variant of CapSum: the bandwidth of side a alone is added.
RECURSIVE CapSum_SideA(_, _)
CapSum_SideA(L, p) ==
    IF L = <<>> THEN 0
    ELSE BwOf(p, Head(L)[1], Head(L)[2]) + CapSum_SideA(Tail(L), p)

\* "cap += min(bw_a, bw_b)" over the links of one edge.
RECURSIVE CapSum(_, _)
CapSum(L, p) ==
    IF L = <<>> THEN 0
    ELSE Min2(BwOf(p, Head(L)[1], Head(L)[2]), BwOf(p, Head(L)[3], Head(L)[4]))
         + CapSum(Tail(L), p)

\* data["capacity_kbps"] = cap if cap else 100000
Capacity(S, p) ==
    IF CapSum(SetToSeq(S), p) # 0 THEN CapSum(SetToSeq(S), p) ELSE DefaultCapacity

\* data["mtus"]: one (ma, mb) per link, in the set's iteration order.
MtuPairs(S, p) ==
    [i \in 1..Len(SetToSeq(S)) |->
        <<MtuOf(p, SetToSeq(S)[i][1], SetToSeq(S)[i][2]),
          MtuOf(p, SetToSeq(S)[i][3], SetToSeq(S)[i][4])>>]

BuildTopology ==
    /\ tpc = "parsed"
    /\ links' = BuildLinks(order, parsed)
    /\ capacity_kbps' = [e \in DOMAIN links' |-> Capacity(links'[e], parsed)]
    /\ mtus' = [e \in DOMAIN links' |-> MtuPairs(links'[e], parsed)]
    /\ tpc' = "built"
    /\ UNCHANGED <<order, parsed, issues, demVars, simVars>>

(***************************************************************************)
(* detect_issues: the duplicate_ip and mtu_mismatch rules.  The other      *)
(* rules (wrong_vlan_label, gateway_mismatch, network_loops,               *)
(* bgp_recommended) append issues of their own types and read neither the  *)
(* addresses' multiplicity nor the MTU pairs; they are left out.           *)
(***************************************************************************)
\* G.edges(): every edge once, as (u, v) with u the endpoint met first in the
\* node order (nodes are added in dict order before any edge).  Within one u
\* the adjacency order is the edges' insertion order; here it is the node order.
RECURSIVE EdgesFrom(_, _, _, _)
EdgesFrom(ord, E, i, j) ==
    IF i > Len(ord) THEN <<>>
    ELSE IF j > Len(ord) THEN EdgesFrom(ord, E, i + 1, i + 1)
    ELSE (IF {ord[i], ord[j]} \in E THEN <<<<ord[i], ord[j]>>>> ELSE <<>>)
         \o EdgesFrom(ord, E, i, j + 1)

EdgeList(ord, E) == EdgesFrom(ord, E, 1, 1)

\* all_ips: (device, vlan or "no-vlan", address) of every interface with an address.
AllIps(ord, p) ==
    LET F == SelectSeq(IfaceList(ord, p), HasIp)
    IN  [i \in 1..Len(F) |->
            <<F[i][1], IF F[i][2].vlan = None THEN "no-vlan" ELSE F[i][2].vlan,
              F[i][2].ip>>]

\* Counter([x[2] for x in all_ips])[ip]
IpCount(A, ip) == Cardinality({i \in 1..Len(A) : A[i][3] = ip})

\* Faulty variant of IsDuplicate: "if cnt >= 1".
IsDuplicate_AtLeastOne(A, ip) == IpCount(A, ip) >= 1

\* "if cnt > 1"
IsDuplicate(A, ip) == IpCount(A, ip) > 1

\* [x[0] for x in all_ips if x[2] == ip]
Where(A, ip) ==
    LET S == SelectSeq(A, LAMBDA x : x[3] = ip)
    IN  [i \in 1..Len(S) |-> S[i][1]]

\* "for ip, cnt in c.items()": a Counter keeps its keys in first-occurrence order.
RECURSIVE DuplicateIpIssues(_, _)
DuplicateIpIssues(A, i) ==
    IF i > Len(A) THEN <<>>
    ELSE (IF (\A j \in 1..(i - 1) : A[j][3] # A[i][3]) /\ IsDuplicate(A, A[i][3])
          THEN <<[type |-> "duplicate_ip", ip |-> A[i][3], where |-> Where(A, A[i][3])]>>
          ELSE <<>>)
         \o DuplicateIpIssues(A, i + 1)

\* Faulty variant of Mismatch: "if ma > mb".
Mismatch_Greater(pair) == pair[1] > pair[2]

\* "if ma != mb"
Mismatch(pair) == pair[1] # pair[2]

\* The inner loop over ed.get("mtus", []) for one edge (u, v).
EdgeMtuIssues(uv, pairs) ==
    LET S == SelectSeq(pairs, Mismatch)
    IN  [i \in 1..Len(S) |->
            [type |-> "mtu_mismatch", link |-> uv, mtu_a |-> S[i][1], mtu_b |-> S[i][2]]]

RECURSIVE MtuIssues(_, _)
MtuIssues(EL, m) ==
    IF EL = <<>> THEN <<>>
    ELSE EdgeMtuIssues(Head(EL), m[{Head(EL)[1], Head(EL)[2]}]) \o MtuIssues(Tail(EL), m)

DetectIssues ==
    /\ tpc = "built"
    /\ issues' = DuplicateIpIssues(AllIps(order, parsed), 1)
                 \o MtuIssues(EdgeList(order, DOMAIN links), mtus)
    /\ tpc' = "detected"
    /\ UNCHANGED <<order, parsed, links, capacity_kbps, mtus, demVars, simVars>>

\* The parts of the state a specification does not use stay at these values.
TopoIdle ==
    /\ order = <<>> /\ parsed = EmptyFn /\ links = EmptyFn
    /\ capacity_kbps = EmptyFn /\ mtus = EmptyFn /\ issues = <<>> /\ tpc = "idle"

DemIdle ==
    /\ gnodes = <<>> /\ gedges = {} /\ gcap = EmptyFn /\ edge_load = EmptyFn
    /\ trial = 0 /\ traversed = EmptyFn /\ recos = {} /\ dpc = "idle"

SimIdle ==
    /\ device_type = EmptyFn /\ sedges = {} /\ started = 0 /\ collected = FALSE
    /\ pc = EmptyFn /\ todo = EmptyFn /\ frm = EmptyFn /\ inbox = EmptyFn
    /\ log = EmptyFn /\ early = EmptyFn

Init ==
    /\ order \in Arrangements(TopoDevices)
    /\ \E s1 \in IfSeqs(MaxIfTotal) : \E s2 \in IfSeqs(MaxIfTotal - Len(s1)) :
          /\ Len(order) < 1 => s1 = <<>>
          /\ Len(order) < 2 => s2 = <<>>
          /\ parsed = [d \in Range(order) |-> IF d = order[1] THEN s1 ELSE s2]
    /\ links = EmptyFn /\ capacity_kbps = EmptyFn /\ mtus = EmptyFn
    /\ issues = <<>>
    /\ tpc = "parsed"
    /\ DemIdle /\ SimIdle

Next == BuildTopology \/ DetectIssues

Spec == Init /\ [][Next]_vars

(***************************************************************************)
(* Properties of build_topology and detect_issues (specification Spec).    *)
(* They are stated over the input (order, parsed) and the results, with    *)
(* their own definitions of "the interface of that name".                  *)
(***************************************************************************)
Built == tpc \in {"built", "detected"}

DevSet == Range(order)

NamedIfs(d, nm) == {i \in 1..Len(parsed[d]) : parsed[d][i].name = nm}

\* The hints build_topology follows: <<a, i>> with a peer present in the input.
Hints ==
    {h \in {<<a, i>> : a \in DevSet, i \in 1..MaxIfTotal} :
        /\ h[2] <= Len(parsed[h[1]])
        /\ parsed[h[1]][h[2]].connects_to # NoHint
        /\ parsed[h[1]][h[2]].connects_to[1] \in DevSet}

HintLink(h) ==
    <<h[1], parsed[h[1]][h[2]].name,
      parsed[h[1]][h[2]].connects_to[1], parsed[h[1]][h[2]].connects_to[2]>>

\* Bandwidth of the interface of that name (the last one, if several share it).
ResolvedBw(d, nm) ==
    IF NamedIfs(d, nm) = {} THEN 100000
    ELSE parsed[d][CHOOSE i \in NamedIfs(d, nm) : \A j \in NamedIfs(d, nm) : j <= i].bw

\* MTU of the interface of that name (the first one, if several share it).
ResolvedMtu(d, nm) ==
    IF NamedIfs(d, nm) = {} THEN 1500
    ELSE parsed[d][CHOOSE i \in NamedIfs(d, nm) : \A j \in NamedIfs(d, nm) : i <= j].mtu

LinkMinBw(l) ==
    IF ResolvedBw(l[1], l[2]) <= ResolvedBw(l[3], l[4])
    THEN ResolvedBw(l[1], l[2]) ELSE ResolvedBw(l[3], l[4])

RECURSIVE SumOfMinBw(_)
SumOfMinBw(S) ==
    IF S = {} THEN 0
    ELSE LET l == CHOOSE x \in S : TRUE IN LinkMinBw(l) + SumOfMinBw(S \ {l})

\* C3 (as claimed): the graph build_topology returns has no self-loop (u, u).
C3_NoSelfLoop == Built => \A e \in DOMAIN links : Cardinality(e) = 2

\* C4 (as claimed): after build_topology, the Link of every hint whose peer is
\* in the input is a member of the link set of the edge between the two devices.
C4_HintLinksKept ==
    Built => \A h \in Hints :
                /\ {HintLink(h)[1], HintLink(h)[3]} \in DOMAIN links
                /\ HintLink(h) \in links[{HintLink(h)[1], HintLink(h)[3]}]

IfsWithIp(x) ==
    {h \in {<<d, i>> : d \in DevSet, i \in 1..MaxIfTotal} :
        h[2] <= Len(parsed[h[1]]) /\ parsed[h[1]][h[2]].ip = x}

DevsWithIp(x) == {h[1] : h \in IfsWithIp(x)}

DupIssuesFor(x) ==
    {k \in 1..Len(issues) : issues[k].type = "duplicate_ip" /\ issues[k].ip = x}

AllAddresses == {p.ip : p \in Profiles} \ {NoIp}

\* C6 (as claimed): exactly one duplicate_ip issue for each address found on at
\* least two distinct devices, and none for any other address, whatever the VLANs.
C6_DuplicateIffTwoDevices ==
    tpc = "detected" =>
        \A x \in AllAddresses :
            Cardinality(DupIssuesFor(x)) = IF Cardinality(DevsWithIp(x)) >= 2 THEN 1 ELSE 0

\* C6 (amended): exactly one duplicate_ip issue for each address found on at
\* least two interfaces, of one device or of several, and none for any other
\* address, whatever the VLANs.
C6_DuplicateIffTwoInterfaces ==
    tpc = "detected" =>
        \A x \in AllAddresses :
            Cardinality(DupIssuesFor(x)) = IF Cardinality(IfsWithIp(x)) >= 2 THEN 1 ELSE 0

\* C6 witness: one address reported once although it is used in two VLAN
\* contexts, beside an address of the same input that is used once and not reported.
C6_Witness ==
    /\ tpc = "detected"
    /\ \E x \in AllAddresses :
          /\ Cardinality(DupIssuesFor(x)) = 1
          /\ Cardinality({parsed[h[1]][h[2]].vlan : h \in IfsWithIp(x)}) = 2
    /\ \E y \in AllAddresses : Cardinality(IfsWithIp(y)) = 1 /\ DupIssuesFor(y) = {}

LinkMtus(l) == <<ResolvedMtu(l[1], l[2]), ResolvedMtu(l[3], l[4])>>

MtuIssuesFor(e, pair) ==
    {k \in 1..Len(issues) :
        /\ issues[k].type = "mtu_mismatch"
        /\ {issues[k].link[1], issues[k].link[2]} = e
        /\ <<issues[k].mtu_a, issues[k].mtu_b>> = pair}

MtuValues == {p.mtu : p \in Profiles} \cup {1500}

\* C7: the mtu_mismatch issues are, edge by edge, one per underlying Link whose
\* two resolved MTUs differ, carrying that Link's (mtu_a, mtu_b); a Link with
\* equal MTUs yields none, and no other mtu_mismatch issue exists.
C7_MtuMismatchPerLink ==
    tpc = "detected" =>
        /\ \A e \in DOMAIN links : \A pair \in MtuValues \X MtuValues :
              Cardinality(MtuIssuesFor(e, pair)) =
                  IF pair[1] # pair[2]
                  THEN Cardinality({l \in links[e] : LinkMtus(l) = pair})
                  ELSE 0
        /\ Cardinality({k \in 1..Len(issues) : issues[k].type = "mtu_mismatch"}) =
               Cardinality({el \in UNION {{<<e, l>> : l \in links[e]} : e \in DOMAIN links} :
                               LinkMtus(el[2])[1] # LinkMtus(el[2])[2]})

\* C7 witness: an edge with a Link whose MTUs differ (one side unresolved, so
\* 1500) and a Link whose MTUs agree, after detect_issues.
C7_Witness ==
    /\ tpc = "detected"
    /\ \E e \in DOMAIN links :
          /\ \E l \in links[e] :
                /\ LinkMtus(l) = <<9000, 1500>>
                /\ NamedIfs(l[3], l[4]) = {}
                /\ MtuIssuesFor(e, <<9000, 1500>>) # {}
          /\ \E l \in links[e] : LinkMtus(l)[1] = LinkMtus(l)[2]

(***************************************************************************)
(* estimate_endpoint_demands and recommend_load_balancing                  *)
(* (specification DemandSpec).  The graph is drawn from the simple graphs  *)
(* over the arrangements of NameSet, each edge with one of two capacities. *)
(***************************************************************************)
NameSet == Range(Names)

NumTrials == 6

DEMANDS == <<1000, 5000, 10000, 20000, 40000>>

\* random.choice draws among the first NDemand entries of DEMANDS.
NDemand == 2

DemandChoices == {DEMANDS[i] : i \in 1..Min2(NDemand, Len(DEMANDS))}

Capacities == {5000, 100000}

\* edge_load[k] = v, adding the key when it is absent.
Put(f, k, v) == [x \in (DOMAIN f) \cup {k} |-> IF x = k THEN v ELSE f[x]]

\* edge_load.get(k, 0)
Get(f, k) == IF k \in DOMAIN f THEN f[k] ELSE 0

\* tuple(sorted((a, b)))
Sorted(a, b) == IF Rank(a) <= Rank(b) THEN <<a, b>> ELSE <<b, a>>

\* { (u, v): 0 for u, v in G.edges() }
InitialLoad(ord, E) ==
    [k \in Range(EdgeList(ord, E)) |-> 0]

IsPath(q, src, dst) ==
    /\ Len(q) >= 2 /\ q[1] = src /\ q[Len(q)] = dst
    /\ \A i \in 1..(Len(q) - 1) : {q[i], q[i + 1]} \in gedges

\* nx.shortest_path(G, src, dst): one of the paths with the fewest hops.
ShortestPaths(src, dst) ==
    LET P == {q \in Arrangements(Range(gnodes)) : IsPath(q, src, dst)}
    IN  {q \in P : \A r \in P : Len(q) <= Len(r)}

\* "for a, b in zip(path, path[1:])": the loop body from hop i on.
RECURSIVE AddAlong(_, _, _, _)
AddAlong(f, q, i, demand) ==
    IF i >= Len(q) THEN f
    ELSE AddAlong(Put(f, Sorted(q[i], q[i + 1]),
                      Get(f, Sorted(q[i], q[i + 1])) + demand),
                  q, i + 1, demand)

Hops(q) == {{q[i], q[i + 1]} : i \in 1..(Len(q) - 1)}

\* random.sample(list(G.nodes()), 2) raises ValueError on fewer than two nodes.
TrialRaise ==
    /\ dpc = "trials" /\ trial < NumTrials
    /\ Len(gnodes) < 2
    /\ dpc' = "raised"
    /\ UNCHANGED <<gnodes, gedges, gcap, edge_load, trial, traversed, recos,
                   topoVars, simVars>>

\* nx.NetworkXNoPath: "continue".
TrialSkip ==
    /\ dpc = "trials" /\ trial < NumTrials
    /\ \E src \in Range(gnodes), dst \in Range(gnodes) :
          /\ src # dst
          /\ ShortestPaths(src, dst) = {}
    /\ trial' = trial + 1
    /\ UNCHANGED <<gnodes, gedges, gcap, edge_load, traversed, recos, dpc,
                   topoVars, simVars>>

TrialRoute ==
    /\ dpc = "trials" /\ trial < NumTrials
    /\ \E src \in Range(gnodes), dst \in Range(gnodes) :
          /\ src # dst
          /\ \E q \in ShortestPaths(src, dst) : \E demand \in DemandChoices :
                /\ edge_load' = AddAlong(edge_load, q, 1, demand)
                /\ traversed' = [e \in gedges |->
                                    IF e \in Hops(q) THEN traversed[e] + demand
                                    ELSE traversed[e]]
    /\ trial' = trial + 1
    /\ UNCHANGED <<gnodes, gedges, gcap, recos, dpc, topoVars, simVars>>

\* "return edge_load"
Return ==
    /\ dpc = "trials" /\ trial = NumTrials
    /\ dpc' = "returned"
    /\ UNCHANGED <<gnodes, gedges, gcap, edge_load, trial, traversed, recos,
                   topoVars, simVars>>

\* "if load > cap"
Overloaded(load, cap) == load > cap

\* recommend_load_balancing; recos is kept as a set, the list's order (the
\* dict order of edge_load) is not modelled.
Recommend ==
    /\ dpc = "returned"
    /\ recos' = {[link |-> k, load_kbps |-> edge_load[k],
                  capacity_kbps |-> gcap[{k[1], k[2]}]] :
                    k \in {x \in DOMAIN edge_load :
                              Overloaded(edge_load[x], gcap[{x[1], x[2]}])}}
    /\ dpc' = "recommended"
    /\ UNCHANGED <<gnodes, gedges, gcap, edge_load, trial, traversed,
                   topoVars, simVars>>

DemandInit ==
    /\ gnodes \in Arrangements(NameSet)
    /\ gedges \in SUBSET {e \in SUBSET Range(gnodes) : Cardinality(e) = 2}
    /\ gcap \in [gedges -> Capacities]
    /\ edge_load = InitialLoad(gnodes, gedges)
    /\ trial = 0
    /\ traversed = [e \in gedges |-> 0]
    /\ recos = {}
    /\ dpc = "trials"
    /\ TopoIdle /\ SimIdle

DemandNext == TrialRaise \/ TrialSkip \/ TrialRoute \/ Return \/ Recommend

DemandSpec == DemandInit /\ [][DemandNext]_vars

Returned == dpc \in {"returned", "recommended"}

KeysOf(e) == {k \in DOMAIN edge_load : {k[1], k[2]} = e}

\* C8 (as claimed): on a topology with zero edges and any number of nodes,
\* estimate_endpoint_demands does not raise, returns the empty mapping, and
\* recommend_load_balancing returns no recommendation.
C8_ZeroEdgesNeverRaises ==
    gedges = {} =>
        /\ dpc # "raised"
        /\ Returned => DOMAIN edge_load = {}
        /\ dpc = "recommended" => recos = {}

\* C9 (as claimed): in the mapping returned, every key is a name pair in sorted
\* order and every edge has exactly one key, whose value is the sum of the
\* demands of the trials whose path crossed the edge.
C9_CanonicalKeys ==
    Returned =>
        /\ \A k \in DOMAIN edge_load : Rank(k[1]) <= Rank(k[2])
        /\ \A e \in gedges :
              /\ Cardinality(KeysOf(e)) = 1
              /\ \A k \in KeysOf(e) : edge_load[k] = traversed[e]

(***************************************************************************)
(* run_day1_sim and NodeThread (specification SimSpec).                    *)
(*                                                                         *)
(* The graph is any graph over NameSet with at most MaxEdges edges,        *)
(* self-loops included (an edge (u, u) makes u its own neighbour), with    *)
(* any assignment of device kinds.                                         *)
(* Workers are started in the order of Names.  Every queue operation is    *)
(* one step; the steps of different workers and of the orchestrator        *)
(* interleave freely.  The clock is not modelled: the window test          *)
(* "time.time() - t0 < 2.0" and the orchestrator's sleep may end at any    *)
(* point, as the scheduler allows.  A get() that times out on an empty     *)
(* queue changes nothing and is a stuttering step.                         *)
(***************************************************************************)
\* Largest number of edges of the graph handed to run_day1_sim.
MaxEdges == 2

HELLO == "NEIGHBOR_HELLO"
ACK == "NEIGHBOR_ACK"

\* router_nodes, as a set and in start order
Routers == {n \in NameSet : device_type[n] = "router"}

IsRouter(n) == n \in Routers

router_nodes == SelectSeq(Names, IsRouter)

\* neighborhood[n]: G.neighbors(n) restricted to routers
neighborhood(n) == {m \in Routers : {n, m} \in sedges}

\* NodeThread.send: neighbor.inbox.put((self.name, msg))
send(ib, n, m, kind) == [ib EXCEPT ![m] = Append(@, <<n, kind>>)]

\* nodes[n].start(), for the next router in order.
Start ==
    /\ started < Len(router_nodes)
    /\ LET n == router_nodes[started + 1]
       IN  /\ pc[n] = "new"
           /\ pc' = [pc EXCEPT ![n] = IF todo[n] = {} THEN "loop" ELSE "hello"]
           /\ early' = [early EXCEPT ![n] = inbox[n] # <<>>]
    /\ started' = started + 1
    /\ UNCHANGED <<device_type, sedges, collected, todo, frm, inbox, log,
                   topoVars, demVars>>

\* simlog = {n: nodes[n].log ...}, after the sleep.  simlog holds the very list
\* objects the workers append to.
Collect ==
    /\ started = Len(router_nodes)
    /\ ~collected
    /\ collected' = TRUE
    /\ UNCHANGED <<device_type, sedges, started, pc, todo, frm, inbox, log, early,
                   topoVars, demVars>>

\* One iteration of "for nb in self.neighbors: self.send(nb, HELLO)"; after the
\* last one the worker takes t0 and enters the loop.  The list's order is the
\* adjacency order of G, which depends on the input: any order is allowed.
SendHello(n) ==
    /\ pc[n] = "hello"
    /\ \E m \in todo[n] :
          /\ inbox' = send(inbox, n, m, HELLO)
          /\ todo' = [todo EXCEPT ![n] = @ \ {m}]
          /\ pc' = [pc EXCEPT ![n] = IF todo[n] = {m} THEN "loop" ELSE "hello"]
    /\ UNCHANGED <<device_type, sedges, started, collected, frm, log, early,
                   topoVars, demVars>>

\* Faulty variant of NeedsReply: every message is answered.
NeedsReply_Always(kind) == TRUE

\* if msg["type"] == "NEIGHBOR_HELLO"
NeedsReply(kind) == kind = HELLO

\* Faulty variant of Recv: the message is dequeued and answered but not logged.
Recv_NoLog(n) ==
    /\ pc[n] = "loop"
    /\ inbox[n] # <<>>
    /\ frm' = [frm EXCEPT ![n] = Head(inbox[n])[1]]
    /\ inbox' = [inbox EXCEPT ![n] = Tail(@)]
    /\ pc' = [pc EXCEPT ![n] = IF NeedsReply(Head(inbox[n])[2]) THEN "reply" ELSE "loop"]
    /\ UNCHANGED <<device_type, sedges, started, collected, todo, log, early,
                   topoVars, demVars>>

\* frm, msg = self.inbox.get(timeout=0.1); self.log.append((frm, msg["type"]))
Recv(n) ==
    /\ pc[n] = "loop"
    /\ inbox[n] # <<>>
    /\ frm' = [frm EXCEPT ![n] = Head(inbox[n])[1]]
    /\ inbox' = [inbox EXCEPT ![n] = Tail(@)]
    /\ log' = [log EXCEPT ![n] = Append(@, Head(inbox[n]))]
    /\ pc' = [pc EXCEPT ![n] = IF NeedsReply(Head(inbox[n])[2]) THEN "reply" ELSE "loop"]
    /\ UNCHANGED <<device_type, sedges, started, collected, todo, early,
                   topoVars, demVars>>

\* Faulty variant of Reply: the NEIGHBOR_ACK goes to every neighbour.
Reply_ToAll(n) ==
    /\ pc[n] = "reply"
    /\ inbox' = [m \in Routers |->
                    IF m \in neighborhood(n) THEN Append(inbox[m], <<n, ACK>>)
                    ELSE inbox[m]]
    /\ pc' = [pc EXCEPT ![n] = "loop"]
    /\ UNCHANGED <<device_type, sedges, started, collected, todo, frm, log, early,
                   topoVars, demVars>>

\* self.send(nodes[frm], {"type": "NEIGHBOR_ACK"})
Reply(n) ==
    /\ pc[n] = "reply"
    /\ inbox' = send(inbox, n, frm[n], ACK)
    /\ pc' = [pc EXCEPT ![n] = "loop"]
    /\ UNCHANGED <<device_type, sedges, started, collected, todo, frm, log, early,
                   topoVars, demVars>>

\* The test "time.time() - t0 < 2.0" fails: run() returns.
Expire(n) ==
    /\ pc[n] = "loop"
    /\ pc' = [pc EXCEPT ![n] = "done"]
    /\ UNCHANGED <<device_type, sedges, started, collected, todo, frm, inbox, log,
                   early, topoVars, demVars>>

SimInit ==
    /\ device_type \in [NameSet -> {"router", "switch"}]
    /\ sedges \in {E \in SUBSET {e \in SUBSET NameSet : Cardinality(e) \in {1, 2}} :
                      Cardinality(E) <= MaxEdges}
    /\ started = 0
    /\ collected = FALSE
    /\ pc = [n \in Routers |-> "new"]
    /\ todo = [n \in Routers |-> neighborhood(n)]
    /\ frm = [n \in Routers |-> None]
    /\ inbox = [n \in Routers |-> <<>>]
    /\ log = [n \in Routers |-> <<>>]
    /\ early = [n \in Routers |-> FALSE]
    /\ TopoIdle /\ DemIdle

SimNext ==
    \/ Start
    \/ Collect
    \/ \E n \in Routers : SendHello(n)
    \/ \E n \in Routers : Recv(n)
    \/ \E n \in Routers : Reply(n)
    \/ \E n \in Routers : Expire(n)

SimSpec == SimInit /\ [][SimNext]_vars

(***************************************************************************)
(* Properties of the discovery simulation (specification SimSpec).         *)
(***************************************************************************)
Count(q, x) == Cardinality({i \in 1..Len(q) : q[i] = x})

\* Messages are never dropped: what m ever put into n's mailbox is still queued
\* there or has been moved to n's log.
Puts(m, n, kind) == Count(inbox[n], <<m, kind>>) + Count(log[n], <<m, kind>>)

RECURSIVE TotalOver(_)
TotalOver(S) ==
    IF S = {} THEN 0
    ELSE LET n == CHOOSE x \in S : TRUE
         IN  Len(inbox[n]) + Len(log[n]) + TotalOver(S \ {n})

\* Ordered pairs of routers adjacent in the router-restricted topology.
AdjacentPairs == {x \in Routers \X Routers : {x[1], x[2]} \in sedges}

AllDone == \A n \in Routers : pc[n] = "done"

\* simlog[n] is the list object nodes[n].log itself.
simlog == log

\* Two distinct routers joined by an edge, in both orders.
JoinedPairs == {x \in AdjacentPairs : x[1] # x[2]}

\* C1 (as claimed): once the workers have finished and the logs are collected,
\* the logs of two routers joined by an edge each hold an entry sent by the other.
C1_NeighboursLogged ==
    (collected /\ AllDone) =>
        \A x \in JoinedPairs :
            \E i \in 1..Len(simlog[x[1]]) :
                simlog[x[1]][i][1] = x[2] /\ simlog[x[1]][i][2] \in {HELLO, ACK}

\* C1 (amended): once the workers have finished and the logs are collected,
\* the log of each of two routers joined by an edge holds the other's HELLO,
\* unless that HELLO is still unread in its mailbox (its window closed first).
C1_LoggedOrUnread ==
    (collected /\ AllDone) =>
        \A x \in JoinedPairs :
            \/ \E i \in 1..Len(simlog[x[1]]) : simlog[x[1]][i] = <<x[2], HELLO>>
            \/ \E i \in 1..Len(inbox[x[1]]) : inbox[x[1]][i] = <<x[2], HELLO>>

\* C1 witness: two joined routers, finished and collected, each with the
\* other's HELLO and ACK in its log and nothing left in its mailbox.
C1_Witness ==
    /\ collected /\ AllDone
    /\ \E x \in JoinedPairs :
          /\ Count(simlog[x[1]], <<x[2], HELLO>>) = 1
          /\ Count(simlog[x[1]], <<x[2], ACK>>) = 1
          /\ Count(simlog[x[2]], <<x[1], HELLO>>) = 1
          /\ Count(simlog[x[2]], <<x[1], ACK>>) = 1
          /\ inbox[x[1]] = <<>> /\ inbox[x[2]] = <<>>

Pending(n, m) == IF pc[n] = "reply" /\ frm[n] = m THEN 1 ELSE 0

\* Every HELLO from m that n has logged is matched by one ACK from n in m's
\* mailbox, or by the reply n is about to make; n has put no other ACK anywhere.
C2_Balance ==
    \A n \in Routers : \A m \in Routers :
        Puts(n, m, ACK) + Pending(n, m) = Count(log[n], <<m, HELLO>>)

\* A step that grows n's log is a dequeue by n inside its window, appends the
\* head of the mailbox and, for a HELLO, leaves n about to reply to its sender;
\* the step that ends the reply puts <<n, ACK>> into that sender's mailbox and
\* changes no other mailbox.
C2_Step ==
    \A n \in Routers :
        /\ Len(log'[n]) # Len(log[n]) =>
              /\ pc[n] = "loop"
              /\ inbox[n] # <<>>
              /\ log'[n] = Append(log[n], Head(inbox[n]))
              /\ Head(inbox[n])[2] = HELLO =>
                    pc'[n] = "reply" /\ frm'[n] = Head(inbox[n])[1]
        /\ (pc[n] = "reply" /\ pc'[n] # "reply") =>
              /\ pc'[n] = "loop"
              /\ inbox' = [inbox EXCEPT ![frm[n]] = Append(@, <<n, ACK>>)]
              /\ log' = log

\* C2: a worker inside its window that dequeues a NEIGHBOR_HELLO of m appends
\* (m, NEIGHBOR_HELLO) to its log and then puts exactly one NEIGHBOR_ACK tagged
\* with its own name into m's mailbox and into no other, under every
\* interleaving, also when the HELLO was queued before the worker was started.
C2_HelloAnswered == []C2_Balance /\ [][C2_Step]_vars

\* C2 witness: n was started with a message already in its mailbox, the first
\* message it dequeued (that one, the mailbox being a queue) is the HELLO of
\* another router m, n has put its ACK into m's mailbox and m has logged it.
C2_Witness ==
    \E n \in Routers : \E m \in Routers \ {n} :
        /\ early[n]
        /\ log[n] # <<>> /\ log[n][1] = <<m, HELLO>>
        /\ Puts(n, m, ACK) = 1
        /\ Count(log[m], <<n, ACK>>) = 1

\* Everything ever put into n's mailbox, oldest first: what n has logged,
\* then what is still queued.
Received(n) == log[n] \o inbox[n]

\* C10: m puts at most one HELLO and at most one ACK into n's mailbox (no
\* (sender, kind) occurs twice among the messages n ever received), and only
\* if m and n are adjacent routers; a reply is only ever triggered by a HELLO;
\* the messages sent number at most twice the ordered adjacent pairs; hence a
\* log holds at most one HELLO and one ACK per neighbour and nothing from others.
C10_BoundedExchange ==
    /\ \A n \in DOMAIN pc :
          LET q == Received(n)
              nb == neighborhood(n)
          IN  \A i \in 1..Len(q) :
                  /\ q[i][1] \in nb
                  /\ q[i][2] \in {HELLO, ACK}
                  /\ \A j \in (i + 1)..Len(q) : q[j] # q[i]
    /\ \A n \in DOMAIN pc :
          pc[n] = "reply" => log[n] # <<>> /\ log[n][Len(log[n])][2] = HELLO
    /\ TotalOver(Routers) <= 2 * Cardinality(AdjacentPairs)

\* C10 witness: a router with two neighbours (itself possibly one of them),
\* every worker finished, every message of the exchange sent and logged: the
\* bound of two messages per ordered adjacent pair is attained.
C10_Witness ==
    /\ AllDone
    /\ \E n \in Routers : Cardinality(neighborhood(n)) = 2
    /\ Cardinality(AdjacentPairs) >= 3
    /\ TotalOver(Routers) = 2 * Cardinality(AdjacentPairs)
    /\ \A n \in Routers : inbox[n] = <<>>

====
